---- MODULE Spec2Model ----
(***************************************************************************)
(* Model of the AgenticIntelligence crawler and pipeline:                  *)
(*   agents/agent_scraper.py   source crawlers, visited-set store,         *)
(*                             scrape_all_products (crawl coordinator)     *)
(*   agents/langgraph_flow.py  stage functions, route_next, Pipeline graph *)
(*   agents/agent_analysis.py, report_generator.py, qa_chatbot.py          *)
(*                             the work each stage calls                   *)
(* Files are relative to the application root (the directory of main.py),  *)
(* which is the process's working directory.                               *)
(***************************************************************************)
EXTENDS Integers, Sequences, FiniteSets, TLC

VARIABLES
    store,      \* visited-set store per source: data/<source>_scraped_urls.txt
    crawler,    \* per crawler task: the locals of scrape_breakout / scrape_rastah
    obs,        \* per crawler task: history of what the run did (observation only)
    coord,      \* scrape_all_products: its locals and position
    fs,         \* the files under data/ that stages and the coordinator touch
    state,      \* the PipelineState dict handed from stage to stage
    pipe,       \* the graph run: current node, stage in progress, invocation history
    env         \* what the environment did in this run (observation only)

vars == <<store, crawler, obs, coord, fs, state, pipe, env>>

(***************************************************************************)
(* Bounds                                                                  *)
(***************************************************************************)
NumUrls  == 2      \* item pages per site
MaxLinks == 2      \* links on one listing page
MaxPages == 2      \* listing pages per site
MaxTotal == 3      \* largest requested total / max_products
MaxCalls == 2      \* stage calls made by a test harness

(***************************************************************************)
(* Basic helpers                                                           *)
(***************************************************************************)
Min(a, b) == IF a < b THEN a ELSE b
Max(a, b) == IF a < b THEN b ELSE a
Range(s) == {s[i] : i \in 1..Len(s)}
\* Python's s[:n]: the first n elements, or all but the last -n when n < 0
SliceTo(s, n) == SubSeq(s, 1, IF n >= 0 THEN Min(Len(s), n) ELSE Max(Len(s) + n, 0))
\* Python's s[n:] for n >= 0
SliceFrom(s, n) == SubSeq(s, Min(Len(s), n) + 1, Len(s))

(***************************************************************************)
(* Sources, URLs, listing links                                            *)
(***************************************************************************)
Tasks == {"breakout", "rastah"}
\* Two calls of scrape_breakout that overlap: the task of one
\* scrape_all_products call and that of another.
OverlapTasks == {"breakout", "breakout_2"}
SourceLabel(t) == IF t \in OverlapTasks THEN "Breakout" ELSE "Rastah"
BaseUrl(t) == IF t \in OverlapTasks THEN "https://breakout.com.pk" ELSE "https://pk.rastah.co"

\* An href is a path on the site, written relative (host "") or absolute.
Hrefs(t) == [host : {"", BaseUrl(t)}, path : 1..NumUrls]
Urls(t) == [host : {BaseUrl(t)}, path : 1..NumUrls]
AllUrls == UNION {Urls(t) : t \in Tasks}

\* if not href.startswith('http'): href = f'{base}{href}'
Normalize(t, href) == IF href.host = "" THEN [href EXCEPT !.host = BaseUrl(t)] ELSE href

\* The link lists one listing page can show (wait_for_selector needs one link).
PageLinks(t) == UNION {[1..n -> Hrefs(t)] : n \in 1..MaxLinks}

(***************************************************************************)
(* Item pages and records                                                  *)
(***************************************************************************)
\* An element handle: absent (query_selector gave None) or present with its
\* text_content(), which may be None ("null"), empty or some text.
NoElement == [present |-> FALSE, text |-> "null"]
Element(txt) == [present |-> TRUE, text |-> txt]

\* content.strip() on the texts the model uses
Strip(txt) == IF txt = " " THEN "" ELSE txt

\* Mutant of get_text_content: an empty text is returned as it is.
get_text_content_EmptyKept(element) ==
    IF ~element.present THEN "N/A"
    ELSE IF element.text = "null" THEN "N/A"
    ELSE Strip(element.text)

get_text_content(element) ==
    IF ~element.present THEN "N/A"
    ELSE IF element.text \in {"null", ""} THEN "N/A"
    ELSE Strip(element.text)

TitleTexts == <<"T1", "T2", "T3", "T4", "T5", "T6">>
\* An item page with every field, and one without a price element and with
\* an empty description.
FullPage(url) ==
    [title |-> Element(TitleTexts[url.path]), price |-> Element("Rs.100"), desc |-> Element("cotton")]
SparsePage(url) ==
    [title |-> Element(TitleTexts[url.path]), price |-> NoElement, desc |-> Element("")]

\* products_data.append([title_text, price_text, desc_text, "<Source>"])
Record(t, page) ==
    << get_text_content(page.title), get_text_content(page.price),
       get_text_content(page.desc), SourceLabel(t) >>

(***************************************************************************)
(* Files. A path is the sequence of its components; fs.dirs holds the      *)
(* directories that exist, fs.files maps each existing file to its content *)
(* (the rows of a CSV file, the text of a text file).                      *)
(***************************************************************************)
DataDir == <<"data">>
PathJoin(dir, name) == dir \o name
Parent(path) == SubSeq(path, 1, Len(path) - 1)
FileExists(f, path) == path \in DOMAIN f.files
WriteFile(f, path, content) ==
    [f EXCEPT !.files = [q \in DOMAIN f.files \cup {path} |->
                            IF q = path THEN content ELSE f.files[q]]]

\* ensure_data_dir: Path('data').mkdir(exist_ok=True)
ensure_data_dir(f) == [f EXCEPT !.dirs = @ \cup {DataDir}]

CsvHeader == <<"Product", "Price", "Description", "Source">>

\* Mutant of save_to_csv: an empty record list is refused.
save_to_csv_RefusingEmpty(f, data, filename) ==
    LET f1 == ensure_data_dir(f)
        filepath == PathJoin(DataDir, filename)
    IN IF Parent(filepath) \in f1.dirs /\ data # <<>>
       THEN [ok |-> TRUE, fs |-> WriteFile(f1, filepath, <<CsvHeader>> \o data)]
       ELSE [ok |-> FALSE, fs |-> f1]

\* Mutant of save_to_csv: the file name is taken as the path to write.
save_to_csv_AtGivenPath(f, data, filename) ==
    LET f1 == ensure_data_dir(f)
    IN IF Parent(filename) \in f1.dirs
       THEN [ok |-> TRUE, fs |-> WriteFile(f1, filename, <<CsvHeader>> \o data)]
       ELSE [ok |-> FALSE, fs |-> f1]

\* save_to_csv(data, filename): the file is data/<filename>; open(.., 'w')
\* raises FileNotFoundError when the directory it names does not exist.
save_to_csv(f, data, filename) ==
    LET f1 == ensure_data_dir(f)
        filepath == PathJoin(DataDir, filename)
    IN IF Parent(filepath) \in f1.dirs
       THEN [ok |-> TRUE, fs |-> WriteFile(f1, filepath, <<CsvHeader>> \o data)]
       ELSE [ok |-> FALSE, fs |-> f1]

(***************************************************************************)
(* Visited-set store: save_scraped_urls / load_scraped_urls                *)
(***************************************************************************)
Sources == {SourceLabel(t) : t \in Tasks}
StoreOf(t) == SourceLabel(t)

\* load_scraped_urls: the set of stripped lines of the file, set() when the
\* file does not exist (an absent file and an empty one load alike).
load_scraped_urls(t) == store[StoreOf(t)]

\* save_scraped_urls opens the file with mode 'w', which truncates it ...
StoreTruncated(t) == [store EXCEPT ![StoreOf(t)] = {}]
\* ... and then writes one line per URL of the in-memory set.
StoreWritten(t, scraped_urls) == [store EXCEPT ![StoreOf(t)] = scraped_urls]

(***************************************************************************)
(* Source crawler: scrape_breakout / scrape_rastah (same code, per source) *)
(***************************************************************************)
RetryBudget == 2     \* for attempt in range(2)

IdleCrawler ==
    [pc |-> "idle", max_products |-> 0, scraped_urls |-> {}, product_urls |-> <<>>,
     products_data |-> <<>>, page |-> 0, idx |-> 0, attempt |-> 0]

IdleObs ==
    [loaded |-> {}, seen_visited |-> {}, emitted |-> <<>>, exhausted |-> {},
     abandoned |-> {}, tried |-> <<>>, delays |-> 0, listing_failed |-> FALSE]

\* The item URLs a run called page.goto on
Navigated(t) == Range(obs[t].tried)

CrawlerFinished(t) == crawler[t].pc \in {"done", "raised"}
CrawlerQuiet(t) == crawler[t].pc = "idle" \/ CrawlerFinished(t)

\* The call itself: the coroutine starts at its first statement.
StartedCrawler(m) == [IdleCrawler EXCEPT !.pc = "load", !.max_products = m]

\* Mutant of IsNewUrl: the visited set is not consulted.
IsNewUrl_IgnoringVisited(href, product_urls, scraped_urls) ==
    href \notin Range(product_urls)

\* href not in product_urls and href not in scraped_urls   (lines 72 / 152)
IsNewUrl(href, product_urls, scraped_urls) ==
    href \notin Range(product_urls) /\ href \notin scraped_urls

\* Mutant of QuotaReached: one URL more than asked for is let in.
QuotaReached_OneMore(product_urls, max_products) == Len(product_urls) > max_products

\* len(product_urls) >= max_products                        (lines 74, 77)
QuotaReached(product_urls, max_products) == Len(product_urls) >= max_products

\* The for loop over the links of one listing page (lines 67-75 / 147-155).
RECURSIVE ScanLinks(_, _, _, _, _)
ScanLinks(t, links, product_urls, scraped_urls, max_products) ==
    IF links = <<>> THEN product_urls
    ELSE LET href == Normalize(t, Head(links))
             new == IsNewUrl(href, product_urls, scraped_urls)
             urls1 == IF new THEN Append(product_urls, href) ELSE product_urls
         IN IF new /\ QuotaReached(urls1, max_products) THEN urls1
            ELSE ScanLinks(t, Tail(links), urls1, scraped_urls, max_products)

\* product_urls[:max_products]: the URLs the extraction loop goes over
ToProcess(c) == SliceTo(c.product_urls, c.max_products)

\* Leaving discovery: the extraction loop starts at its first URL, or, with
\* nothing to process, the browser is closed and the store is saved.
EnterExtraction(c) ==
    IF ToProcess(c) = <<>> THEN [c EXCEPT !.pc = "save", !.page = 0]
    ELSE [c EXCEPT !.pc = "extract", !.idx = 1, !.attempt = 0, !.page = 0]

\* Mutant of RootCatch: after the error the URLs found so far are processed.
RootCatch_Extracting(c) == EnterExtraction(c)

\* except Exception at the crawler's root (lines 121-122 / 201-202): the
\* error is printed and control falls through to save_scraped_urls.
RootCatch(c) == [c EXCEPT !.pc = "save", !.page = 0]

\* scraped_urls = load_scraped_urls(...); products_data = []  (lines 48-49).
\* The load is outside the try block: a failing read propagates to the caller.
CrawlLoad(t) ==
    /\ crawler[t].pc = "load"
    /\ \E ok \in BOOLEAN :
        IF ok
        THEN /\ crawler' = [crawler EXCEPT ![t].pc = "launch",
                                           ![t].scraped_urls = load_scraped_urls(t)]
             /\ obs' = [obs EXCEPT ![t].loaded = load_scraped_urls(t)]
             /\ env' = env
        ELSE /\ crawler' = [crawler EXCEPT ![t].pc = "raised"]
             /\ env' = [env EXCEPT !.faults = @ \cup {"store"}]
             /\ obs' = obs
    /\ fs' = ensure_data_dir(fs)
    /\ UNCHANGED <<store, coord, state, pipe>>

\* Browser launch and page.goto(listing) (lines 51-60): any failure is caught
\* at the root.
CrawlLaunch(t) ==
    /\ crawler[t].pc = "launch"
    /\ \E ok \in BOOLEAN :
        IF ok
        THEN /\ crawler' = [crawler EXCEPT ![t] =
                    IF QuotaReached(<<>>, @.max_products)
                    THEN EnterExtraction([@ EXCEPT !.page = 1])
                    ELSE [@ EXCEPT !.pc = "discover", !.page = 1]]
             /\ obs' = obs
             /\ env' = env
        ELSE /\ crawler' = [crawler EXCEPT ![t] = RootCatch(@)]
             /\ obs' = [obs EXCEPT ![t].listing_failed = TRUE]
             /\ env' = [env EXCEPT !.faults = @ \cup {"site"}]
    /\ UNCHANGED <<store, coord, fs, state, pipe>>

\* What a listing page can show when it is fetched: any links and any Next
\* control, also on the last page (env.site = "any"), or the page of a fixed
\* catalog, which lists item p on page p, once as a relative and once as an
\* absolute link, and has no Next control on its last page.
ListingViews(t, page) ==
    IF env.site = "any"
    THEN {[links |-> l, next |-> n] : l \in PageLinks(t), n \in BOOLEAN}
    ELSE {[links |-> <<[host |-> "", path |-> page], [host |-> BaseUrl(t), path |-> page]>>,
           next |-> page < NumUrls]}

\* The listing page a click on Next leads to: the following one, and from
\* the last of the site's MaxPages pages back to the first.
NextPage(page) == IF page < MaxPages THEN page + 1 ELSE 1

\* One iteration of the pagination loop (lines 63-87): wait for the links of
\* the current listing page, scan them, then stop or click Next.
CrawlDiscover(t) ==
    /\ crawler[t].pc = "discover"
    /\ LET c == crawler[t] IN
       \/ \E view \in ListingViews(t, c.page), click_ok \in BOOLEAN :
            LET urls == ScanLinks(t, view.links, c.product_urls, c.scraped_urls, c.max_products)
                c1 == [c EXCEPT !.product_urls = urls]
                seen == {Normalize(t, view.links[i]) : i \in 1..Len(view.links)}
                more == ~QuotaReached(urls, c.max_products) /\ view.next
            IN /\ more \/ click_ok
               /\ crawler' = [crawler EXCEPT ![t] =
                        IF ~more THEN EnterExtraction(c1)
                        ELSE IF click_ok THEN [c1 EXCEPT !.page = NextPage(@)]
                        ELSE RootCatch(c1)]
               /\ obs' = [obs EXCEPT ![t].seen_visited = @ \cup (seen \cap obs[t].loaded),
                                     ![t].listing_failed = more /\ ~click_ok]
       \/ \* wait_for_selector times out, or the page is not what the code expects
          /\ crawler' = [crawler EXCEPT ![t] = RootCatch(@)]
          /\ obs' = [obs EXCEPT ![t].listing_failed = TRUE]
    /\ env' = IF obs'[t].listing_failed THEN [env EXCEPT !.faults = @ \cup {"site"}] ELSE env
    /\ UNCHANGED <<store, coord, fs, state, pipe>>

\* What one extraction attempt can meet: the page loads and has some shape,
\* a PlaywrightTimeoutError, or any other exception.
\* The shapes an item page can have once its marker element has appeared;
\* the catalog's item pages have every field.
ItemPages(url) ==
    IF env.site = "any" THEN {FullPage(url), SparsePage(url)} ELSE {FullPage(url)}

AttemptOutcomes(url) ==
    {[kind |-> "ok", page |-> pg] : pg \in ItemPages(url)}
        \cup {[kind |-> "timeout", page |-> NoElement], [kind |-> "error", page |-> NoElement]}

\* Mutant of AttemptSucceeded: the record is put in front of the list.
AttemptSucceeded_Prepending(t, c, url, page) ==
    [c EXCEPT !.products_data = <<Record(t, page)>> \o @,
              !.scraped_urls = @ \cup {url},
              !.pc = "delay"]

\* Mutant of AttemptSucceeded: the URL is not added to the visited set.
AttemptSucceeded_NotVisited(t, c, url, page) ==
    [c EXCEPT !.products_data = Append(@, Record(t, page)),
              !.pc = "delay"]

\* On success (lines 105-108): append the record, add the URL, leave the retry loop.
AttemptSucceeded(t, c, url, page) ==
    [c EXCEPT !.products_data = Append(@, Record(t, page)),
              !.scraped_urls = @ \cup {url},
              !.pc = "delay"]

\* Mutant of AttemptTimedOut: running out of attempts ends the whole crawl.
AttemptTimedOut_Aborting(c) ==
    IF c.attempt + 1 < RetryBudget THEN [c EXCEPT !.attempt = @ + 1]
    ELSE [c EXCEPT !.pc = "save"]

\* except PlaywrightTimeoutError (lines 109-111): sleep, then the next attempt
\* of range(RetryBudget); with none left the for-else prints "Failed ... Skipping".
AttemptTimedOut(c) ==
    IF c.attempt + 1 < RetryBudget THEN [c EXCEPT !.attempt = @ + 1]
    ELSE [c EXCEPT !.pc = "delay"]

\* Mutant of AttemptErrored: an abandoned URL is followed by the next URL
\* without the delay.
AttemptErrored_NoDelay(c) ==
    IF c.idx < Len(ToProcess(c))
    THEN [c EXCEPT !.pc = "extract", !.idx = @ + 1, !.attempt = 0]
    ELSE [c EXCEPT !.pc = "save"]

\* Mutant of AttemptErrored: any failure is retried like a timeout.
AttemptErrored_Retrying(c) ==
    IF c.attempt + 1 < RetryBudget THEN [c EXCEPT !.attempt = @ + 1]
    ELSE [c EXCEPT !.pc = "delay"]

\* except Exception (lines 112-114): break, no further attempt for this URL.
AttemptErrored(c) == [c EXCEPT !.pc = "delay"]

\* One attempt of the retry loop for the current URL (lines 91-116).
CrawlAttempt(t) ==
    /\ crawler[t].pc = "extract"
    /\ LET c == crawler[t]
           url == ToProcess(c)[c.idx]
       IN \E o \in AttemptOutcomes(url) :
            /\ crawler' = [crawler EXCEPT ![t] =
                    CASE o.kind = "ok" -> AttemptSucceeded(t, c, url, o.page)
                      [] o.kind = "timeout" -> AttemptTimedOut(c)
                      [] OTHER -> AttemptErrored(c)]
            /\ obs' = [obs EXCEPT
                    ![t].tried = IF c.attempt = 0 THEN Append(@, url) ELSE @,
                    ![t].emitted = IF crawler'[t].products_data # c.products_data
                                   THEN Append(@, url) ELSE @,
                    ![t].exhausted = IF o.kind = "timeout" /\ crawler'[t].pc # "extract"
                                     THEN @ \cup {url} ELSE @,
                    ![t].abandoned = IF o.kind = "error" THEN @ \cup {url} ELSE @]
            /\ env' = IF o.kind = "ok" THEN env ELSE [env EXCEPT !.faults = @ \cup {"site"}]
    /\ UNCHANGED <<store, coord, fs, state, pipe>>

\* await asyncio.sleep(random.uniform(0.5, 1.5)) after each URL (line 117),
\* then the next URL of the for loop, or browser.close() after the last one.
CrawlDelay(t) ==
    /\ crawler[t].pc = "delay"
    /\ crawler' = [crawler EXCEPT ![t] =
            IF @.idx < Len(ToProcess(@))
            THEN [@ EXCEPT !.pc = "extract", !.idx = @ + 1, !.attempt = 0]
            ELSE [@ EXCEPT !.pc = "save"]]
    /\ obs' = [obs EXCEPT ![t].delays = @ + 1]
    /\ UNCHANGED <<store, coord, fs, state, pipe, env>>

\* save_scraped_urls(scraped_urls, ...) (lines 124 / 204), outside the try
\* block: open(..., 'w') truncates the file, or fails and the error propagates.
CrawlSaveOpen(t) ==
    /\ crawler[t].pc = "save"
    /\ \E ok \in BOOLEAN :
        IF ok
        THEN /\ store' = StoreTruncated(t)
             /\ crawler' = [crawler EXCEPT ![t].pc = "saving"]
             /\ env' = env
        ELSE /\ store' = store
             /\ crawler' = [crawler EXCEPT ![t].pc = "raised"]
             /\ env' = [env EXCEPT !.faults = @ \cup {"store"}]
    /\ fs' = ensure_data_dir(fs)
    /\ UNCHANGED <<obs, coord, state, pipe>>

\* ... the lines are written, the file is closed, and products_data is returned.
CrawlSaveWrite(t) ==
    /\ crawler[t].pc = "saving"
    /\ store' = StoreWritten(t, crawler[t].scraped_urls)
    /\ crawler' = [crawler EXCEPT ![t].pc = "done"]
    /\ coord' = IF coord.pc = "gather" THEN [coord EXCEPT !.arrived = Append(@, t)] ELSE coord
    /\ UNCHANGED <<obs, fs, state, pipe, env>>

\* Any step of a running crawler task.
CrawlStep(t) ==
    \/ CrawlLoad(t)
    \/ CrawlLaunch(t)
    \/ CrawlDiscover(t)
    \/ CrawlAttempt(t)
    \/ CrawlDelay(t)
    \/ CrawlSaveOpen(t)
    \/ CrawlSaveWrite(t)

(***************************************************************************)
(* Values of the parts of the program a specification leaves idle          *)
(***************************************************************************)
IdleCoord ==
    [pc |-> "idle", total_products |-> 0, per_source |-> 0, final_data |-> <<>>,
     total_scraped |-> 0, breakout_count |-> 0, rastah_count |-> 0,
     arrived |-> <<>>]
IdleFs == [dirs |-> {}, files |-> <<>>]
IdleState == [keys |-> {}]
IdlePipe == [node |-> "idle", phase |-> "idle", calls |-> <<>>, routed |-> ""]
IdleEnv == [site |-> "any", faults |-> {}, initial_files |-> {}]

(***************************************************************************)
(* SpecCrawl: one call of one source crawler, for every content of its     *)
(* visited-set store, every quota and every behaviour of the site.         *)
(***************************************************************************)
InitCrawl ==
    \E t \in Tasks, m \in 0..MaxTotal : \E visited \in SUBSET Urls(t) :
        /\ store = [src \in Sources |-> IF src = StoreOf(t) THEN visited ELSE {}]
        /\ crawler = [u \in Tasks |-> IF u = t THEN StartedCrawler(m) ELSE IdleCrawler]
        /\ obs = [u \in Tasks |-> IdleObs]
        /\ coord = IdleCoord
        /\ fs = IdleFs
        /\ state = IdleState
        /\ pipe = IdlePipe
        /\ env = IdleEnv

NextCrawl ==
    \E t \in Tasks :
        \/ CrawlLoad(t)
        \/ CrawlLaunch(t)
        \/ CrawlDiscover(t)
        \/ CrawlAttempt(t)
        \/ CrawlDelay(t)
        \/ CrawlSaveOpen(t)
        \/ CrawlSaveWrite(t)

SpecCrawl == InitCrawl /\ [][NextCrawl]_vars

\* The event loop resumes the crawler whenever the page operation it awaits
\* has returned or timed out.
SpecCrawlFair == SpecCrawl /\ WF_vars(NextCrawl)

(***************************************************************************)
(* Crawl coordinator: scrape_all_products                                  *)
(***************************************************************************)
\* math.ceil(total_products / 2)
\* Mutant of CeilHalf: the half is rounded down.
CeilHalf_Floor(n) == n \div 2

\* per_source = math.ceil(total_products / 2)                  (line 214)
CeilHalf(n) == (n + 1) \div 2

\* Mutant of FinalData: the list is trimmed at its head.
FinalData_DroppingHead(all_data, total_products) ==
    SliceFrom(all_data, Max(Len(all_data) - total_products, 0))

\* Mutant of FinalData: the concatenation is not trimmed.
FinalData_Untrimmed(all_data, total_products) == all_data

\* final_data = all_data[:total_products]                       (line 228)
FinalData(all_data, total_products) == SliceTo(all_data, total_products)

BreakoutFile == <<"breakout_products.csv">>
RastahFile == <<"rastah_products.csv">>
AllFile == <<"all_products.csv">>

\* Mutant of Gathered: the results come in the order the tasks ended.
Gathered_ByArrival(arrived) ==
    <<crawler[arrived[1]].products_data, crawler[arrived[2]].products_data>>

\* breakout_data, rastah_data = await asyncio.gather(breakout_task, rastah_task)
\* (line 224): the results in the order of the arguments, whichever task
\* ended first (arrived lists the tasks in the order they ended).
Gathered(arrived) ==
    <<crawler["breakout"].products_data, crawler["rastah"].products_data>>

\* Lines 214-221: the quota per source, and one task per source crawler.
CoordStart ==
    /\ coord.pc = "call"
    /\ coord' = [coord EXCEPT !.pc = "gather", !.per_source = CeilHalf(coord.total_products)]
    /\ crawler' = [t \in Tasks |-> StartedCrawler(CeilHalf(coord.total_products))]
    /\ UNCHANGED <<store, obs, fs, state, pipe, env>>

\* Lines 224-249: await asyncio.gather(...) returns once both tasks are done;
\* the lists are joined, trimmed, written, and the result is returned.
CoordMerge ==
    /\ coord.pc = "gather"
    /\ \A t \in Tasks : crawler[t].pc = "done"
    /\ LET breakout_data == Gathered(coord.arrived)[1]
           rastah_data == Gathered(coord.arrived)[2]
           final_data == FinalData(breakout_data \o rastah_data, coord.total_products)
           w1 == save_to_csv(fs, breakout_data, BreakoutFile)
           w2 == save_to_csv(w1.fs, rastah_data, RastahFile)
           w3 == save_to_csv(w2.fs, final_data, AllFile)
       IN IF w1.ok /\ w2.ok /\ w3.ok
          THEN /\ fs' = w3.fs
               /\ coord' = [coord EXCEPT !.pc = "done",
                                         !.final_data = final_data,
                                         !.total_scraped = Len(final_data),
                                         !.breakout_count = Len(breakout_data),
                                         !.rastah_count = Len(rastah_data)]
          ELSE /\ fs' = IF ~w1.ok THEN w1.fs ELSE IF ~w2.ok THEN w2.fs ELSE w3.fs
               /\ coord' = [coord EXCEPT !.pc = "raised"]
    /\ UNCHANGED <<store, crawler, obs, state, pipe, env>>

\* asyncio.gather re-raises the first exception of a task as soon as the task
\* fails; lines 250-252 print it and raise it again.
CoordRaise ==
    /\ coord.pc = "gather"
    /\ \E t \in Tasks : crawler[t].pc = "raised"
    /\ coord' = [coord EXCEPT !.pc = "raised"]
    /\ UNCHANGED <<store, crawler, obs, fs, state, pipe, env>>

(***************************************************************************)
(* SpecCoord: one call of scrape_all_products against the catalog sites,   *)
(* for every requested total and with or without earlier visits.           *)
(***************************************************************************)
FirstUrl(t) == [host |-> BaseUrl(t), path |-> 1]

InitCoord ==
    /\ store \in [Sources -> SUBSET AllUrls]
    /\ \A t \in Tasks : store[StoreOf(t)] \subseteq {FirstUrl(t)}
    /\ crawler = [t \in Tasks |-> IdleCrawler]
    /\ obs = [t \in Tasks |-> IdleObs]
    /\ \E n \in 0..MaxTotal : coord = [IdleCoord EXCEPT !.pc = "call", !.total_products = n]
    /\ fs \in {IdleFs, ensure_data_dir(IdleFs)}
    /\ state = IdleState
    /\ pipe = IdlePipe
    /\ env = [IdleEnv EXCEPT !.site = "catalog"]

NextCoord ==
    \/ CoordStart
    \/ CoordMerge
    \/ CoordRaise
    \/ \E t \in Tasks : CrawlStep(t)

SpecCoord == InitCoord /\ [][NextCoord]_vars

(***************************************************************************)
(* SpecOverlap: two scrape_all_products calls that overlap (two requests   *)
(* to /start-scrape, main.py lines 709-724), seen from the Breakout store: *)
(* each call's scrape_breakout task, with its own quota, against the       *)
(* catalog site.                                                           *)
(***************************************************************************)
InitOverlap ==
    /\ \E visited \in SUBSET {FirstUrl("breakout")} :
          store = [src \in Sources |-> IF src = "Breakout" THEN visited ELSE {}]
    /\ \E quota \in [OverlapTasks -> 1..NumUrls] :
          crawler = [t \in OverlapTasks |-> StartedCrawler(quota[t])]
    /\ obs = [t \in OverlapTasks |-> IdleObs]
    /\ coord = IdleCoord
    /\ fs = IdleFs
    /\ state = IdleState
    /\ pipe = IdlePipe
    /\ env = [IdleEnv EXCEPT !.site = "catalog"]

\* save_scraped_urls has no await in it: between its open and its close no
\* other task of the event loop runs.
OverlapStep(t) ==
    /\ \A u \in OverlapTasks \ {t} : crawler[u].pc # "saving"
    /\ CrawlStep(t)

NextOverlap == \E t \in OverlapTasks : OverlapStep(t)

SpecOverlap == InitOverlap /\ [][NextOverlap]_vars

(***************************************************************************)
(* PipelineState and the helpers of langgraph_flow.py                      *)
(***************************************************************************)
None == "<None>"
\* Python truth of an Optional[str]
Truthy(v) == v \notin {None, ""}

\* An empty dict, and the dict the Scrape stage stores under scraped_data.
EmptyDict == [filled |-> FALSE, breakout |-> <<>>, rastah |-> <<>>]
ScrapedData(breakout_data, rastah_data) ==
    [filled |-> TRUE, breakout |-> breakout_data, rastah |-> rastah_data]

StateKeys ==
    {"question", "max_products", "headless", "scraped_data", "analysis_results", "report",
     "messages", "progress_status", "progress_log", "status", "error"}

\* A PipelineState with every key of the TypedDict, as a run starts with it.
NewState(max_products) ==
    [keys |-> StateKeys, question |-> "Q", max_products |-> max_products, headless |-> TRUE,
     scraped_data |-> EmptyDict, analysis_results |-> "", report |-> None, messages |-> <<>>,
     progress_status |-> "initializing", progress_log |-> <<>>, status |-> "pending",
     error |-> None]

\* state.get(key) for the string-valued keys
Get(s, key) == IF key \in s.keys THEN s[key] ELSE None

\* Mutant of log_progress: the message replaces the log.
log_progress_Overwriting(s, message) == [s EXCEPT !.progress_log = <<message>>]

\* log_progress (lines 32-34); the timestamp prefix is left out.
log_progress(s, message) == [s EXCEPT !.progress_log = Append(@, message)]

\* state["progress_status"] = label
SetProgress(s, label) ==
    [s EXCEPT !.progress_status = label, !.keys = @ \cup {"progress_status"}]

\* A message a stage returns; id 0 stands for "no id yet".
Message(role, content) == [id |-> 0, role |-> role, content |-> content]

\* messages: Annotated[list, add_messages] (line 26): a returned message that
\* carries the id of a stored one replaces it, any other is appended and
\* given an id (here its position).
RECURSIVE add_messages(_, _)
add_messages(left, right) ==
    IF right = <<>> THEN left
    ELSE LET m == Head(right) IN
         IF m.id \in 1..Len(left)
         THEN add_messages([left EXCEPT ![m.id] = m], Tail(right))
         ELSE add_messages(Append(left, [m EXCEPT !.id = Len(left) + 1]), Tail(right))

\* What a stage function call comes to: the dict it returned, or an exception
\* that left it; either way with the input dict as mutated in place.
Returned(s, f, branch) == [raised |-> FALSE, state |-> s, fs |-> f, branch |-> branch]
Raised(s, f) == [raised |-> TRUE, state |-> s, fs |-> f, branch |-> "raise"]

\* Mutant of StageFailed: the failing stage also drops the scraped data.
StageFailed_DroppingData(s, f, stage, cause) ==
    IF "progress_log" \notin s.keys THEN Raised(s, f)
    ELSE Returned([log_progress(s, stage \o " agent error: " \o cause)
                      EXCEPT !.error = stage \o " agent error: " \o cause,
                             !.status = "failed",
                             !.scraped_data = EmptyDict,
                             !.keys = @ \cup {"error", "status"}], f, "fail")

\* Mutant of StageFailed: the error is recorded but the status is left alone.
StageFailed_StatusUntouched(s, f, stage, cause) ==
    IF "progress_log" \notin s.keys THEN Raised(s, f)
    ELSE Returned([log_progress(s, stage \o " agent error: " \o cause)
                      EXCEPT !.error = stage \o " agent error: " \o cause,
                             !.keys = @ \cup {"error"}], f, "fail")

\* The except block of every stage (lines 79-82, 115-118, 134-137, 170-173):
\* log the error, return {**state, "error": error_msg, "status": "failed"}.
\* log_progress raises KeyError in turn when the dict has no progress_log.
StageFailed(s, f, stage, cause) ==
    IF "progress_log" \notin s.keys THEN Raised(s, f)
    ELSE Returned([log_progress(s, stage \o " agent error: " \o cause)
                      EXCEPT !.error = stage \o " agent error: " \o cause,
                             !.status = "failed",
                             !.keys = @ \cup {"error", "status"}], f, "fail")

\* Mutant of route_next: the report is looked at before the analysis.
route_next_ReportFirst(s) ==
    IF Truthy(Get(s, "error")) THEN "end"
    ELSE IF ~("scraped_data" \in s.keys /\ s.scraped_data.filled) THEN "scraper"
    ELSE IF ~Truthy(Get(s, "report")) THEN "report"
    ELSE IF ~Truthy(Get(s, "analysis_results")) THEN "analyzer"
    ELSE "end"

\* Mutant of route_next: a run whose log is empty is sent to the first stage.
route_next_ReadingLog(s) ==
    IF s.progress_log = <<>> THEN "scraper"
    ELSE IF Truthy(Get(s, "error")) THEN "end"
    ELSE IF ~("scraped_data" \in s.keys /\ s.scraped_data.filled) THEN "scraper"
    ELSE IF ~Truthy(Get(s, "analysis_results")) THEN "analyzer"
    ELSE IF ~Truthy(Get(s, "report")) THEN "report"
    ELSE "end"

\* Mutant of route_next: the error field is looked at last.
route_next_ErrorLast(s) ==
    IF ~("scraped_data" \in s.keys /\ s.scraped_data.filled) THEN "scraper"
    ELSE IF ~Truthy(Get(s, "analysis_results")) THEN "analyzer"
    ELSE IF ~Truthy(Get(s, "report")) THEN "report"
    ELSE "end"

\* route_next (lines 175-184)
route_next(s) ==
    IF Truthy(Get(s, "error")) THEN "end"
    ELSE IF ~("scraped_data" \in s.keys /\ s.scraped_data.filled) THEN "scraper"
    ELSE IF ~Truthy(Get(s, "analysis_results")) THEN "analyzer"
    ELSE IF ~Truthy(Get(s, "report")) THEN "report"
    ELSE "end"

\* Pipeline.__init__ (lines 187-224): the nodes, the entry point, and for each
\* node the targets its conditional edge maps route_next's answer to.
Nodes == {"scraper", "analyzer", "qa", "report"}
EntryPoint == "scraper"
\* Mutant of Wiring: a stage that ended the run is entered again.
Wiring_Retrying(node) ==
    CASE node = "scraper" -> [analyzer |-> "analyzer", end |-> "scraper"]
      [] node = "analyzer" -> [qa |-> "qa", end |-> "analyzer"]
      [] node = "qa" -> [report |-> "report", end |-> "end"]
      [] node = "report" -> [end |-> "end"]

Wiring(node) ==
    CASE node = "scraper" -> [analyzer |-> "analyzer", end |-> "end"]
      [] node = "analyzer" -> [qa |-> "qa", end |-> "end"]
      [] node = "qa" -> [report |-> "report", end |-> "end"]
      [] node = "report" -> [end |-> "end"]

\* The artifacts of the stages, as the stage functions name them.
BreakoutCsv == <<"data", "breakout_products.csv">>
RastahCsv == <<"data", "rastah_products.csv">>
AnalysisTxt == <<"data", "deep_analysis.txt">>
ReportTxt == <<"data", "generated_report.txt">>

\* list(csv.reader(f))[1:]
ReadCsvRows(f, path) == SliceFrom(f.files[path], 1)

(***************************************************************************)
(* Scrape stage: scraper_agent (lines 36-82)                               *)
(***************************************************************************)
\* Mutant of ScrapeSkipRows: the header row is kept.
ScrapeSkipRows_WithHeader(f, path) == f.files[path]

\* The rows the skip branch loads from one artifact (lines 45-48).
ScrapeSkipRows(f, path) == ReadCsvRows(f, path)

\* os.path.exists(breakout_path) and os.path.exists(rastah_path)   (line 43)
ScrapeArtifactsExist(f) == FileExists(f, BreakoutCsv) /\ FileExists(f, RastahCsv)

\* Lines 38-64, up to the await of the two crawlers: the call ends there with
\* a result (skip branch, or a failure), or goes on to crawl (branch "work").
scraper_agent_begin(s, f) ==
    LET s1 == SetProgress(s, "scraping") IN
    IF "progress_log" \notin s1.keys THEN StageFailed(s1, f, "Scraper", "KeyError")
    ELSE LET s2 == log_progress(s1, "Starting scraping step...") IN
         IF ScrapeArtifactsExist(f)
         THEN LET s3 == log_progress(s2, "Scraped data already exists. Skipping scraping.")
                  breakout_data == ScrapeSkipRows(f, BreakoutCsv)
                  rastah_data == ScrapeSkipRows(f, RastahCsv)
              IN Returned([s3 EXCEPT
                     !.scraped_data = ScrapedData(breakout_data, rastah_data),
                     !.messages = <<Message("system",
                         <<"Skipped scraping. Loaded", Len(breakout_data), Len(rastah_data)>>)>>,
                     !.keys = @ \cup {"scraped_data", "messages"}], f, "skip")
         ELSE IF {"max_products", "headless"} \subseteq s2.keys
              THEN Returned(s2, f, "work")
              ELSE StageFailed(s2, f, "Scraper", "KeyError")

\* max_products=state["max_products"]//2                     (lines 62-63)
StageQuota(s) == s.max_products \div 2

\* Lines 65-78, once both crawlers have returned their lists.
scraper_agent_finish(s, f, breakout_data, rastah_data) ==
    LET w1 == save_to_csv(f, breakout_data, BreakoutCsv)
        w2 == save_to_csv(w1.fs, rastah_data, RastahCsv)
    IN IF ~w1.ok THEN StageFailed(s, w1.fs, "Scraper", "FileNotFoundError")
       ELSE IF ~w2.ok THEN StageFailed(s, w2.fs, "Scraper", "FileNotFoundError")
       ELSE Returned([log_progress(s, "Scraping complete.") EXCEPT
                !.scraped_data = ScrapedData(breakout_data, rastah_data),
                !.messages = <<Message("system",
                    <<"Completed scraping. Found", Len(breakout_data), Len(rastah_data)>>)>>,
                !.keys = @ \cup {"scraped_data", "messages"}], w2.fs, "work")

(***************************************************************************)
(* The text-generation capability (ChatGroq.invoke), as the stages see it  *)
(***************************************************************************)
\* A call fails, or replies with a text, which may be nothing but a
\* reasoning block.
LlmReplies ==
    {[ok |-> TRUE, text |-> "<think>plan</think>findings"],
     [ok |-> TRUE, text |-> "<think>plan</think>"],
     [ok |-> FALSE, text |-> ""]}

\* clean_llm_output (agent_analysis.py lines 94-101) on the replies above:
\* the <think>...</think> block is removed and the rest is stripped.
clean_llm_output(text) ==
    CASE text = "<think>plan</think>findings" -> "findings"
      [] text = "<think>plan</think>" -> ""
      [] OTHER -> text

(***************************************************************************)
(* Analyze stage: analysis_agent (lines 84-118) and run_deep_analysis      *)
(***************************************************************************)
\* load_csv_products (agent_analysis.py lines 57-92): the data rows of each
\* file in turn; a missing file, a file without data rows, or no rows at all
\* raise ValueError.
RECURSIVE load_csv_products(_, _)
load_csv_products(f, file_paths) ==
    IF file_paths = <<>> THEN [ok |-> TRUE, products |-> <<>>, cause |-> ""]
    ELSE LET path == Head(file_paths) IN
         IF ~FileExists(f, path)
         THEN [ok |-> FALSE, products |-> <<>>, cause |-> "Could not find the file"]
         ELSE IF SliceFrom(f.files[path], 1) = <<>>
         THEN [ok |-> FALSE, products |-> <<>>, cause |-> "exists but contains no product data"]
         ELSE LET rest == load_csv_products(f, Tail(file_paths)) IN
              IF rest.ok THEN [rest EXCEPT !.products = SliceFrom(f.files[path], 1) \o @]
              ELSE rest

\* analyze_products (lines 103-177) under run_deep_analysis (lines 179-193):
\* load, require two products, generate, clean, write data/deep_analysis.txt.
run_deep_analysis(f, csv_paths, reply) ==
    LET loaded == load_csv_products(f, csv_paths) IN
    IF ~loaded.ok THEN [ok |-> FALSE, fs |-> f, cause |-> loaded.cause]
    ELSE IF Len(loaded.products) < 2
    THEN [ok |-> FALSE, fs |-> f, cause |-> "Not enough product data"]
    ELSE IF ~reply.ok
    THEN [ok |-> FALSE, fs |-> f, cause |-> "Error during analysis with the AI model"]
    ELSE IF Parent(AnalysisTxt) \notin f.dirs
    THEN [ok |-> FALSE, fs |-> f, cause |-> "Error saving analysis results to file"]
    ELSE [ok |-> TRUE, fs |-> WriteFile(f, AnalysisTxt, clean_llm_output(reply.text)), cause |-> ""]

analysis_agent(s, f, reply) ==
    LET s1 == SetProgress(s, "analyzing") IN
    IF "progress_log" \notin s1.keys THEN StageFailed(s1, f, "Analysis", "KeyError")
    ELSE LET s2 == log_progress(s1, "Starting analysis step...") IN
         IF FileExists(f, AnalysisTxt)
         THEN Returned([log_progress(s2, "Analysis already exists. Skipping analysis.") EXCEPT
                  !.analysis_results = f.files[AnalysisTxt],
                  !.messages = <<Message("system", <<"Skipped analysis. Loaded existing analysis results.">>)>>,
                  !.keys = @ \cup {"analysis_results", "messages"}], f, "skip")
         ELSE LET run == run_deep_analysis(f, <<BreakoutCsv, RastahCsv>>, reply) IN
              IF ~run.ok
              THEN StageFailed(s2, run.fs, "Analysis",
                               "Failed to complete the analysis process. Error: " \o run.cause)
              ELSE Returned([log_progress(s2, "Analysis complete.") EXCEPT
                       !.analysis_results = run.fs.files[AnalysisTxt],
                       !.messages = <<Message("system", <<"Completed deep analysis of product data">>)>>,
                       !.keys = @ \cup {"analysis_results", "messages"}], run.fs, "work")

(***************************************************************************)
(* Answer stage: qa_agent (lines 120-137) and qa_chatbot                   *)
(***************************************************************************)
\* qa_chatbot()(question) (qa_chatbot.py lines 9-52): without the analysis
\* file a fixed sentence and no generation call; otherwise one call, whose
\* failure propagates.
qa_answer(f, reply) ==
    IF ~FileExists(f, AnalysisTxt)
    THEN [ok |-> TRUE, answer |-> "No analysis report found. Please run the market analysis first."]
    ELSE IF reply.ok THEN [ok |-> TRUE, answer |-> reply.text]
    ELSE [ok |-> FALSE, answer |-> ""]

qa_agent(s, f, reply) ==
    LET s1 == SetProgress(s, "qa_processing") IN
    IF "progress_log" \notin s1.keys THEN StageFailed(s1, f, "QA", "KeyError")
    ELSE LET s2 == log_progress(s1, "Starting QA step...")
             qa == qa_answer(f, reply)
         IN IF "question" \notin s2.keys THEN StageFailed(s2, f, "QA", "KeyError")
            ELSE IF ~qa.ok THEN StageFailed(s2, f, "QA", "generation failed")
            ELSE Returned([log_progress(s2, "QA complete.") EXCEPT
                     !.messages = <<Message("assistant", <<qa.answer>>)>>,
                     !.keys = @ \cup {"messages"}], f, "work")

(***************************************************************************)
(* Report stage: report_agent (lines 139-173) and generate_report          *)
(***************************************************************************)
\* Mutant of generate_report: the reply is also written over the analysis.
generate_report_TouchingAnalysis(f, reply) ==
    IF ~FileExists(f, AnalysisTxt) THEN f
    ELSE IF ~reply.ok THEN f
    ELSE IF Parent(ReportTxt) \notin f.dirs THEN f
    ELSE WriteFile(WriteFile(f, ReportTxt, reply.text), AnalysisTxt, reply.text)

\* generate_report (report_generator.py lines 8-80): every failure is printed
\* and returned as a string; the report file is written only after a reply.
generate_report(f, reply) ==
    IF ~FileExists(f, AnalysisTxt) THEN f
    ELSE IF ~reply.ok THEN f
    ELSE IF Parent(ReportTxt) \notin f.dirs THEN f
    ELSE WriteFile(f, ReportTxt, reply.text)

report_agent(s, f, reply) ==
    LET s1 == SetProgress(s, "generating_report") IN
    IF "progress_log" \notin s1.keys THEN StageFailed(s1, f, "Report", "KeyError")
    ELSE LET s2 == log_progress(s1, "Starting report generation step...") IN
         IF FileExists(f, ReportTxt)
         THEN Returned([log_progress(s2, "Report already exists. Skipping generation.") EXCEPT
                  !.report = f.files[ReportTxt],
                  !.progress_status = "completed",
                  !.messages = <<Message("system", <<"Skipped report generation. Loaded existing report.">>)>>,
                  !.keys = @ \cup {"report", "messages"}], f, "skip")
         ELSE LET f1 == generate_report(f, reply) IN
              IF ~FileExists(f1, ReportTxt)
              THEN StageFailed(s2, f1, "Report", "FileNotFoundError")
              ELSE Returned([log_progress(s2, "Report generation complete.") EXCEPT
                       !.report = f1.files[ReportTxt],
                       !.progress_status = "completed",
                       !.messages = <<Message("system", <<"Report generation completed">>)>>,
                       !.keys = @ \cup {"report", "messages"}], f1, "work")

(***************************************************************************)
(* Running the stages: the graph of class Pipeline, and a harness          *)
(***************************************************************************)
\* The stage call now in progress or last made, as recorded in pipe.calls.
LastCall == pipe.calls[Len(pipe.calls)]
Invoked == [i \in 1..Len(pipe.calls) |-> pipe.calls[i].node]

\* A node's result is written to the state channels: every key of the
\* returned dict replaces the stored value, messages go through add_messages.
\* An exception leaves the channels as they were and ends the run.
StageEnds(r, calls) ==
    /\ fs' = r.fs
    /\ state' = IF r.raised THEN state
                ELSE [r.state EXCEPT !.messages = add_messages(state.messages, r.state.messages)]
    /\ pipe' = [pipe EXCEPT !.phase = IF r.raised THEN "raised" ELSE "returned",
                            !.calls = calls]

Call(node, branch) == [node |-> node, branch |-> branch]

\* scraper_agent up to asyncio.gather (line 61): it returns from the skip
\* branch or with a failure, or starts the two crawlers and awaits them.
ScraperAgentCall ==
    /\ pipe.node = "scraper" /\ pipe.phase = "ready"
    /\ LET r == scraper_agent_begin(state, fs) IN
       IF r.branch = "work"
       THEN /\ state' = r.state
            /\ crawler' = [t \in Tasks |-> StartedCrawler(StageQuota(r.state))]
            /\ obs' = [t \in Tasks |-> IdleObs]
            /\ pipe' = [pipe EXCEPT !.phase = "running",
                                    !.calls = Append(@, Call("scraper", "running"))]
            /\ UNCHANGED <<store, coord, fs, env>>
       ELSE /\ StageEnds(r, Append(pipe.calls, Call("scraper", r.branch)))
            /\ UNCHANGED <<store, crawler, obs, coord, env>>

\* asyncio.gather (lines 61-64) returns when both crawlers have returned, or
\* raises as soon as one of them raised; then lines 65-82. The coroutines
\* that have ended are gone; one still running runs on, awaited by nobody.
ScraperAgentGather ==
    /\ pipe.node = "scraper" /\ pipe.phase = "running"
    /\ \/ /\ \A t \in Tasks : crawler[t].pc = "done"
          /\ LET r == scraper_agent_finish(state, fs, crawler["breakout"].products_data,
                                           crawler["rastah"].products_data)
             IN StageEnds(r, [pipe.calls EXCEPT ![Len(pipe.calls)].branch = r.branch])
       \/ /\ \E t \in Tasks : crawler[t].pc = "raised"
          /\ LET r == StageFailed(state, fs, "Scraper", "OSError")
             IN StageEnds(r, [pipe.calls EXCEPT ![Len(pipe.calls)].branch = r.branch])
    /\ crawler' = [t \in Tasks |-> IF CrawlerFinished(t) THEN IdleCrawler ELSE crawler[t]]
    /\ obs' = [t \in Tasks |-> IF CrawlerFinished(t) THEN IdleObs ELSE obs[t]]
    /\ UNCHANGED <<store, coord, env>>

\* The environment's part in a generation call.
Generation(reply) ==
    env' = IF reply.ok THEN env ELSE [env EXCEPT !.faults = @ \cup {"llm"}]

AnalysisAgent ==
    /\ pipe.node = "analyzer" /\ pipe.phase = "ready"
    /\ \E reply \in LlmReplies :
        LET r == analysis_agent(state, fs, reply) IN
        /\ StageEnds(r, Append(pipe.calls, Call("analyzer", r.branch)))
        /\ IF r.branch = "skip" THEN env' = env ELSE Generation(reply)
    /\ UNCHANGED <<store, crawler, obs, coord>>

QaAgent ==
    /\ pipe.node = "qa" /\ pipe.phase = "ready"
    /\ \E reply \in LlmReplies :
        LET r == qa_agent(state, fs, reply) IN
        /\ StageEnds(r, Append(pipe.calls, Call("qa", r.branch)))
        /\ Generation(reply)
    /\ UNCHANGED <<store, crawler, obs, coord>>

ReportAgent ==
    /\ pipe.node = "report" /\ pipe.phase = "ready"
    /\ \E reply \in LlmReplies :
        LET r == report_agent(state, fs, reply) IN
        /\ StageEnds(r, Append(pipe.calls, Call("report", r.branch)))
        /\ IF r.branch = "skip" THEN env' = env ELSE Generation(reply)
    /\ UNCHANGED <<store, crawler, obs, coord>>

\* The conditional edge of the node that just returned: route_next's answer
\* is looked up in the node's targets; an answer that is not among them is a
\* KeyError that ends the run.
PipeRoute ==
    /\ pipe.phase = "returned"
    /\ pipe.node \in Nodes
    /\ LET answer == route_next(state) IN
       pipe' = IF answer \in DOMAIN Wiring(pipe.node)
               THEN [pipe EXCEPT !.node = Wiring(pipe.node)[answer], !.routed = answer,
                                 !.phase = IF Wiring(pipe.node)[answer] = "end" THEN "done" ELSE "ready"]
               ELSE [pipe EXCEPT !.routed = answer, !.phase = "raised"]
    /\ UNCHANGED <<store, crawler, obs, coord, fs, state, env>>

(***************************************************************************)
(* Spec: one run of the graph, await app.invoke(state), from the entry     *)
(* point, over every combination of artifacts already on disk.             *)
(***************************************************************************)
\* A record as the catalog's first item yields it
SampleRecord(t) == Record(t, FullPage(FirstUrl(t)))
\* The records of the catalog's first two items
SampleRecords(t) == <<SampleRecord(t), Record(t, FullPage([host |-> BaseUrl(t), path |-> 2]))>>
\* With(f, present, path, content): f, with the file added when present.
With(f, present, path, content) == IF present THEN WriteFile(f, path, content) ELSE f

\* The files a run can find: data/ exists, data/data/ may, and each artifact
\* may be there as an earlier run left it: a scraped file with its header and
\* no, one or (Rastah) two records.
InitialFiles ==
    { With(With(With(With(
          [dirs |-> IF nested THEN {DataDir, PathJoin(DataDir, DataDir)} ELSE {DataDir},
           files |-> <<>>],
          b # {}, BreakoutCsv, <<CsvHeader>> \o SliceTo(<<SampleRecord("breakout")>>, Cardinality(b) - 1)),
          r # {}, RastahCsv, <<CsvHeader>> \o SliceTo(SampleRecords("rastah"), Cardinality(r) - 1)),
          a, AnalysisTxt, "findings"),
          p, ReportTxt, "the report") :
        nested \in BOOLEAN, a \in BOOLEAN, p \in BOOLEAN,
        b \in {{}, {"header"}, {"header", "record"}},
        r \in {{}, {"header"}, {"header", "record"}, {"header", "record", "second record"}} }

InitPipeline(first_phase, totals) ==
    /\ store = [src \in Sources |-> {}]
    /\ crawler = [t \in Tasks |-> IdleCrawler]
    /\ obs = [t \in Tasks |-> IdleObs]
    /\ coord = IdleCoord
    /\ fs \in InitialFiles
    /\ \E m \in totals : state = NewState(m)
    /\ pipe = [IdlePipe EXCEPT !.node = EntryPoint, !.phase = first_phase]
    /\ env = [IdleEnv EXCEPT !.site = "catalog", !.initial_files = DOMAIN fs.files]

Init == InitPipeline("ready", {1, MaxTotal})

Next ==
    \/ ScraperAgentCall
    \/ ScraperAgentGather
    \/ AnalysisAgent
    \/ PipeRoute
    \/ \E t \in Tasks : CrawlStep(t)

Spec == Init /\ [][Next]_vars

(***************************************************************************)
(* SpecStage: a harness that calls the stage functions one after another,  *)
(* in any order, each on the state the previous call left.                 *)
(***************************************************************************)
\* The harness starts where the scraped files are both there or both
\* missing, and the analysis and the report are both there or both missing.
StageFiles ==
    { f \in InitialFiles :
        /\ FileExists(f, BreakoutCsv) <=> FileExists(f, RastahCsv)
        /\ FileExists(f, AnalysisTxt) <=> FileExists(f, ReportTxt) }

InitStage ==
    /\ InitPipeline("returned", {2})
    /\ fs \in StageFiles

HarnessCall(node) ==
    /\ pipe.phase = "returned"
    /\ Len(pipe.calls) < MaxCalls
    /\ \A t \in Tasks : CrawlerQuiet(t)
    /\ pipe' = [pipe EXCEPT !.node = node, !.phase = "ready"]
    /\ UNCHANGED <<store, crawler, obs, coord, fs, state, env>>

NextStage ==
    \/ \E node \in Nodes : HarnessCall(node)
    \/ ScraperAgentCall
    \/ ScraperAgentGather
    \/ AnalysisAgent
    \/ QaAgent
    \/ ReportAgent
    \/ \E t \in Tasks : CrawlStep(t)

SpecStage == InitStage /\ [][NextStage]_vars

(***************************************************************************)
(* SpecRoute: route_next and the conditional edges, applied after each     *)
(* node to every combination of state fields.                              *)
(***************************************************************************)
RouteInputs ==
    { [NewState(1) EXCEPT !.keys = StateKeys \ absent, !.error = error,
                          !.scraped_data = scraped_data, !.analysis_results = analysis_results,
                          !.report = report, !.status = status, !.progress_log = progress_log] :
        absent \in {{}, {"error"}, {"scraped_data", "analysis_results", "report"}},
        error \in {None, "", "Scraper agent error: OSError"},
        scraped_data \in {EmptyDict, ScrapedData(<<>>, <<>>),
                          ScrapedData(<<SampleRecord("breakout")>>, <<>>)},
        analysis_results \in {None, "", "findings"},
        report \in {None, "", "the report"},
        status \in {"pending", "failed"},
        progress_log \in {<<>>, <<"Starting scraping step...">>} }

InitRoute ==
    /\ store = [src \in Sources |-> {}]
    /\ crawler = [t \in Tasks |-> IdleCrawler]
    /\ obs = [t \in Tasks |-> IdleObs]
    /\ coord = IdleCoord
    /\ fs = IdleFs
    /\ state \in RouteInputs
    /\ \E node \in Nodes : pipe = [IdlePipe EXCEPT !.node = node, !.phase = "returned"]
    /\ env = IdleEnv

NextRoute == PipeRoute

SpecRoute == InitRoute /\ [][NextRoute]_vars

(***************************************************************************)
(* SpecTask: the stage functions called on the state that run_pipeline's   *)
(* task builds (main.py lines 300-308): a PipelineState without the keys   *)
(* max_products, headless, progress_log and status.                        *)
(***************************************************************************)
TaskState ==
    [NewState(0) EXCEPT !.keys = {"question", "scraped_data", "analysis_results", "report",
                                  "messages", "progress_status", "error"}]

InitTask ==
    /\ store = [src \in Sources |-> {}]
    /\ crawler = [t \in Tasks |-> IdleCrawler]
    /\ obs = [t \in Tasks |-> IdleObs]
    /\ coord = IdleCoord
    /\ fs \in InitialFiles
    /\ state = TaskState
    /\ pipe = [IdlePipe EXCEPT !.node = EntryPoint, !.phase = "returned"]
    /\ env = [IdleEnv EXCEPT !.site = "catalog", !.initial_files = DOMAIN fs.files]

NextTask ==
    \/ \E node \in Nodes : HarnessCall(node)
    \/ ScraperAgentCall
    \/ AnalysisAgent
    \/ QaAgent
    \/ ReportAgent

SpecTask == InitTask /\ [][NextTask]_vars

(***************************************************************************)
(* Properties of one crawler (SpecCrawl)                                   *)
(***************************************************************************)
CrawlOver(t) == crawler[t].pc \in {"save", "saving", "done"}

\* C2: a URL in the visited set loaded at the start of a crawl is never
\* navigated to as an item page and never yields a Record in that crawl,
\* whatever the listing pages show.
C2_VisitedNeverRevisited ==
    \A t \in Tasks :
        /\ obs[t].loaded \cap Navigated(t) = {}
        /\ obs[t].loaded \cap Range(obs[t].emitted) = {}
        /\ obs[t].loaded \cap Range(crawler[t].product_urls) = {}

C2_Witness ==
    \E t \in Tasks :
        /\ crawler[t].pc = "done"
        /\ obs[t].seen_visited # {}
        /\ obs[t].emitted # <<>>

\* C3: a URL whose every extraction attempt timed out has no Record in the
\* output, is not in the visited set persisted at the end, and every URL
\* discovered after it is still attempted.
C3_ExhaustedUrlSkipped ==
    \A t \in Tasks : \A u \in obs[t].exhausted :
        /\ u \notin Range(obs[t].emitted)
        /\ Len(crawler[t].products_data) = Len(obs[t].emitted)
        /\ u \notin crawler[t].scraped_urls
        /\ crawler[t].pc = "done" => u \notin store[StoreOf(t)]
        /\ CrawlOver(t) =>
              \A i, j \in 1..Len(crawler[t].product_urls) :
                  (i < j /\ crawler[t].product_urls[i] = u)
                      => crawler[t].product_urls[j] \in Range(obs[t].tried)

C3_Witness ==
    \E t \in Tasks :
        /\ crawler[t].pc = "done"
        /\ \E i, j \in 1..Len(crawler[t].product_urls) :
              /\ i < j
              /\ crawler[t].product_urls[i] \in obs[t].exhausted
              /\ crawler[t].product_urls[j] \in Range(obs[t].emitted)

\* C6: a crawler never raises to its caller, whatever fails: browser launch,
\* listing navigation, item extraction, loading or saving the visited store.
C6_CrawlerNeverRaises == \A t \in Tasks : crawler[t].pc # "raised"

\* C22: at the end of every crawl, also one where discovery or items failed,
\* the visited-set store has been rewritten and holds exactly the set loaded
\* at the start united with the URLs that yielded a Record in this crawl;
\* only a failure of the store itself ends a crawl otherwise.
C22_StoreIsLoadedPlusEmitted ==
    \A t \in Tasks :
        /\ crawler[t].pc = "done" =>
              /\ store[StoreOf(t)] = obs[t].loaded \cup Range(obs[t].emitted)
              /\ obs[t].loaded \subseteq store[StoreOf(t)]
        /\ (CrawlerFinished(t) /\ "store" \notin env.faults) => crawler[t].pc = "done"

C22_Witness ==
    \E t \in Tasks :
        /\ crawler[t].pc = "done"
        /\ obs[t].loaded # {}
        /\ obs[t].emitted # <<>>
        /\ "site" \in env.faults

C22_WitnessDiscoveryFailed ==
    \E t \in Tasks :
        /\ crawler[t].pc = "done"
        /\ obs[t].loaded # {}
        /\ obs[t].listing_failed

\* The crawl has loaded its visited set and has not returned yet.
CrawlUnderWay(t) == crawler[t].pc \in {"launch", "discover", "extract", "delay", "save", "saving"}

\* C23: whenever a crawl is interrupted between loading the visited set and
\* returning, the store still holds every URL it held before the crawl.
C23_InterruptionKeepsStore ==
    \A t \in Tasks : CrawlUnderWay(t) => obs[t].loaded \subseteq store[StoreOf(t)]

\* C24: in every state of a crawl the discovered-URL list has no duplicate
\* and at most max_products entries, so at most max_products item pages are
\* visited and at most max_products Records are returned.
C24_DiscoveryBounded ==
    \A t \in Tasks :
        LET c == crawler[t] IN
        /\ Len(c.product_urls) <= c.max_products
        /\ \A i, j \in 1..Len(c.product_urls) : c.product_urls[i] = c.product_urls[j] => i = j
        /\ Cardinality(Navigated(t)) <= c.max_products
        /\ Len(obs[t].tried) <= c.max_products
        /\ Len(c.products_data) <= c.max_products

C24_Witness ==
    \E t \in Tasks :
        /\ crawler[t].pc = "done"
        /\ crawler[t].max_products = 1
        /\ Len(crawler[t].product_urls) = 1
        /\ Len(crawler[t].products_data) = 1
        /\ obs[t].loaded = {}

\* A step that is one extraction attempt of crawler t, and how it ended.
AttemptStep(t) == crawler[t].pc = "extract" /\ crawler'[t] # crawler[t]
AttemptedUrl(t) == ToProcess(crawler[t])[crawler[t].idx]
EndedInSuccess(t) == obs'[t].emitted # obs[t].emitted
EndedInError(t) == AttemptedUrl(t) \in obs'[t].abandoned
EndedInTimeout(t) == ~EndedInSuccess(t) /\ ~EndedInError(t)
TriesAgain(t) ==
    /\ crawler'[t].pc = "extract"
    /\ crawler'[t].idx = crawler[t].idx
    /\ crawler'[t].attempt = crawler[t].attempt + 1

\* C25: at most 2 extraction attempts are made per item URL: a second one
\* if and only if the first timed out; a success or any other failure ends
\* the attempts at once, and after such a failure the URL has no Record and
\* is not in the visited set.
C25_RetryOnlyOnTimeout ==
    [][ \A t \in Tasks : AttemptStep(t) =>
            /\ crawler[t].attempt \in {0, 1}
            /\ TriesAgain(t) <=> (EndedInTimeout(t) /\ crawler[t].attempt = 0)
            /\ ~TriesAgain(t) => crawler'[t].pc = "delay"
            /\ EndedInError(t) =>
                  /\ crawler'[t].products_data = crawler[t].products_data
                  /\ AttemptedUrl(t) \notin crawler'[t].scraped_urls
                  /\ AttemptedUrl(t) \notin Range(obs'[t].emitted)
            /\ \A u \in obs[t].abandoned :
                  u \notin crawler[t].scraped_urls /\ u \notin Range(obs[t].emitted)
      ]_vars

C25_Witness ==
    \E t \in Tasks :
        /\ crawler[t].pc = "done"
        /\ obs[t].abandoned # {}
        /\ obs[t].exhausted # {}
        /\ obs[t].abandoned \cap store[StoreOf(t)] = {}

\* C26: once the attempts for an item URL have ended, in success, in
\* exhausted retries or in abandonment, exactly one delay takes place before
\* the next item URL is attempted: the delays counted equal the URLs whose
\* attempts have ended and been left behind.
C26_OneDelayPerUrl ==
    \A t \in Tasks :
        LET c == crawler[t]
            begun == Len(obs[t].tried)
        IN /\ (c.pc = "extract" /\ c.attempt = 0) => (obs[t].delays = begun /\ begun = c.idx - 1)
           /\ (c.pc = "extract" /\ c.attempt > 0) => (obs[t].delays = begun - 1 /\ begun = c.idx)
           /\ c.pc = "delay" => (obs[t].delays = begun - 1 /\ begun = c.idx)
           /\ CrawlOver(t) => obs[t].delays = begun

C26_Witness ==
    \E t \in Tasks :
        /\ crawler[t].pc = "done"
        /\ obs[t].delays = 2
        /\ obs[t].exhausted # {}
        /\ obs[t].abandoned # {}

C26_WitnessAfterSuccess ==
    \E t \in Tasks :
        /\ crawler[t].pc = "extract"
        /\ crawler[t].idx = 2
        /\ obs[t].delays = 1
        /\ Len(obs[t].emitted) = 1

\* C31: the records a crawler returns are in the order their URLs were
\* discovered: the URLs that produced the records form a subsequence of the
\* discovered-URL list, with at most one record per discovered URL, and the
\* i-th record is the one of the i-th such URL.
C31_RecordsInDiscoveryOrder ==
    \A t \in Tasks :
        LET c == crawler[t]
            urls == c.product_urls
            made == obs[t].emitted
        IN /\ \A i, j \in DOMAIN urls : urls[i] = urls[j] => i = j
           /\ Len(c.products_data) = Len(made)
           /\ \A k \in DOMAIN made :
                 /\ \E i \in DOMAIN urls : urls[i] = made[k]
                 /\ c.products_data[k][1] = TitleTexts[made[k].path]
           /\ \A k, l \in DOMAIN made :
                 k < l => \E i, j \in DOMAIN urls : i < j /\ urls[i] = made[k] /\ urls[j] = made[l]

C31_Witness ==
    \E t \in Tasks :
        /\ crawler[t].pc = "done"
        /\ Len(crawler[t].product_urls) = 2
        /\ Len(crawler[t].products_data) = 2
        /\ crawler[t].product_urls[1].path = 2

C31_WitnessWithGap ==
    \E t \in Tasks :
        /\ crawler[t].pc = "done"
        /\ Len(crawler[t].product_urls) = 2
        /\ obs[t].emitted = <<crawler[t].product_urls[2]>>

\* C34: an item page without a price element, or with an empty description,
\* never fails the attempt: the attempt on it yields a record with "N/A" in
\* that field, adds the URL to the visited set and is the URL's last attempt.
C34_MissingFieldIsPlaceholder ==
    \A t \in Tasks :
        LET c == crawler[t] IN
        c.pc = "extract" =>
              LET url == ToProcess(c)[c.idx]
                  after == AttemptSucceeded(t, c, url, SparsePage(url))
              IN /\ after.products_data =
                        Append(c.products_data, <<TitleTexts[url.path], "N/A", "N/A", SourceLabel(t)>>)
                 /\ url \in after.scraped_urls
                 /\ after.pc = "delay"

C34_Witness ==
    \E t \in Tasks :
        /\ crawler[t].pc = "done"
        /\ \E i \in DOMAIN crawler[t].products_data :
              /\ crawler[t].products_data[i][2] = "N/A"
              /\ crawler[t].products_data[i][3] = "N/A"
        /\ store[StoreOf(t)] = Range(obs[t].emitted) \cup obs[t].loaded
        /\ obs[t].emitted # <<>>

\* C37: when the discovery loop fails on a listing page, also on a page
\* after some URLs were discovered, the crawler goes to no item page, holds
\* no record and a visited set equal to the loaded one, and, unless the
\* store itself cannot be written, returns the empty list and leaves the
\* store as it was loaded.
C37_DiscoveryFailureReturnsEmpty ==
    \A t \in Tasks :
        obs[t].listing_failed =>
            /\ crawler[t].pc \in {"save", "saving", "done", "raised"}
            /\ Navigated(t) = {}
            /\ crawler[t].products_data = <<>>
            /\ crawler[t].scraped_urls = obs[t].loaded
            /\ crawler[t].pc = "raised" => "store" \in env.faults
            /\ crawler[t].pc = "done" => store[StoreOf(t)] = obs[t].loaded

C37_Witness ==
    \E t \in Tasks :
        /\ obs[t].listing_failed
        /\ crawler[t].pc = "done"
        /\ crawler[t].product_urls # <<>>
        /\ crawler[t].page = 0
        /\ obs[t].loaded # {}
        /\ env.faults = {"site"}

\* C40: when every page operation returns or times out, every crawl
\* terminates: discovery goes on only below the quota, no URL gets more than
\* RetryBudget attempts, and the crawler eventually returns or raises.
C40_CrawlTerminates ==
    /\ [](\A t \in Tasks :
            /\ crawler[t].attempt < RetryBudget
            /\ crawler[t].pc = "discover" => Len(crawler[t].product_urls) < crawler[t].max_products)
    /\ <>(\A t \in Tasks : CrawlerQuiet(t))

(***************************************************************************)
(* Properties of scrape_all_products (SpecCoord)                           *)
(***************************************************************************)
AllProductsPath == PathJoin(DataDir, AllFile)
DataRows(path) == IF Len(fs.files[path]) = 0 THEN 0 ELSE Len(fs.files[path]) - 1

\* C1: for a requested total N >= 1 and any crawler outputs, the combined
\* list returned and the all_products artifact hold at most N records.
C1_CombinedAtMostTotal ==
    (coord.pc = "done" /\ coord.total_products >= 1) =>
        /\ Len(coord.final_data) <= coord.total_products
        /\ coord.total_scraped <= coord.total_products
        /\ FileExists(fs, AllProductsPath)
        /\ DataRows(AllProductsPath) <= coord.total_products

C1_Witness ==
    /\ coord.pc = "done"
    /\ coord.total_products >= 1
    /\ coord.breakout_count + coord.rastah_count > coord.total_products

(***************************************************************************)
(* Properties of route_next (SpecRoute)                                    *)
(***************************************************************************)
ErrorSet == Truthy(Get(state, "error"))

\* C4: for every state whose error field is non-empty, route_next returns
\* the terminal stage name "end", whatever scraped_data, analysis_results,
\* report and the other fields hold; and that is the answer the conditional
\* edge has acted on.
C4_ErrorRoutesToEnd ==
    ErrorSet =>
        /\ route_next(state) = "end"
        /\ pipe.routed # "" => pipe.routed = "end" /\ pipe.node = "end"

C4_Witness ==
    /\ ErrorSet
    /\ pipe.routed = "end"
    /\ ~state.scraped_data.filled
    /\ ~Truthy(Get(state, "analysis_results"))

\* A field of the state is absent or empty.
Missing(key) ==
    \/ key \notin state.keys
    \/ IF key = "scraped_data" THEN state.scraped_data = EmptyDict
       ELSE state[key] \in {None, ""}

\* C20: with error unset route_next answers Scrape ("scraper") when
\* scraped_data is absent or empty, else Analyze ("analyzer") when
\* analysis_results is, else Report ("report") when report is, else the
\* terminal ("end"); the answer is a function of these three fields alone,
\* and routing changes no field of the state.
C20_RouteByFirstMissingField ==
    [][ ~ErrorSet =>
            /\ pipe'.routed = CASE Missing("scraped_data") -> "scraper"
                                [] ~Missing("scraped_data") /\ Missing("analysis_results") -> "analyzer"
                                [] ~Missing("scraped_data") /\ ~Missing("analysis_results")
                                       /\ Missing("report") -> "report"
                                [] OTHER -> "end"
            /\ state' = state
      ]_vars

C20_Witness ==
    /\ ~ErrorSet
    /\ pipe.routed = "report"
    /\ state.status = "failed"
    /\ state.progress_log # <<>>
    /\ "error" \notin state.keys

(***************************************************************************)
(* Properties of a run of the graph (Spec)                                 *)
(***************************************************************************)
RunOver == pipe.phase \in {"done", "raised"}

\* C5: in every state of a run where error is set, status is "failed", the
\* stage that set it is the last one invoked, and no stage is in progress or
\* about to be invoked.
C5_ErrorEndsRun ==
    ErrorSet =>
        /\ state.status = "failed"
        /\ pipe.calls # <<>>
        /\ LastCall.branch = "fail"
        /\ \A i \in 1..Len(pipe.calls) : pipe.calls[i].branch = "fail" => i = Len(pipe.calls)
        /\ pipe.phase \in {"returned", "done"}
        /\ pipe.phase = "done" => pipe.node = "end"

C5_Witness ==
    /\ ErrorSet
    /\ pipe.phase = "done"
    /\ Invoked = <<"scraper", "analyzer">>

\* A run that started with no artifact on disk and met no failure of the
\* store or of text generation.
FreshRun == env.initial_files = {} /\ env.faults = {}

\* C7: a run from the entry point with no artifact on disk and no failure
\* invokes Scrape, Analyze, Answer, Report in that order, each once, and
\* then reaches the terminal.
C7_FreshRunVisitsAllStages ==
    (RunOver /\ FreshRun) =>
        /\ Invoked = <<"scraper", "analyzer", "qa", "report">>
        /\ pipe.phase = "done" /\ pipe.node = "end"

\* Scenario D: the scraped files and the analysis are on disk, the report
\* is not, and nothing fails.
ScenarioD ==
    /\ {BreakoutCsv, RastahCsv, AnalysisTxt} \subseteq env.initial_files
    /\ ReportTxt \notin env.initial_files
    /\ env.faults = {}

\* C9: in a run of scenario D, Scrape and Analyze each log their skip and do
\* no work, and Report is reached and is the only stage that does work.
C9_OnlyReportWorks ==
    (RunOver /\ ScenarioD) =>
        /\ Len(pipe.calls) >= 2
        /\ pipe.calls[1] = Call("scraper", "skip")
        /\ pipe.calls[2] = Call("analyzer", "skip")
        /\ "Scraped data already exists. Skipping scraping." \in Range(state.progress_log)
        /\ "Analysis already exists. Skipping analysis." \in Range(state.progress_log)
        /\ \A t \in Tasks : crawler[t] = IdleCrawler
        /\ Call("report", "work") \in Range(pipe.calls)
        /\ \A i \in 1..Len(pipe.calls) :
              pipe.calls[i].branch = "work" => pipe.calls[i].node \in {"report", "qa"}
        /\ FileExists(fs, ReportTxt)

(***************************************************************************)
(* Properties of the stage functions (SpecStage)                           *)
(***************************************************************************)
FileRows(path) == IF Len(fs.files[path]) = 0 THEN 0 ELSE Len(fs.files[path]) - 1

\* C8: when both per-source artifacts exist as the Scrape stage is called,
\* the call appends the log entry that tells of the skip, sets scraped_data
\* so that each source's record count is the number of data rows of its
\* artifact, and starts no crawler and navigates nowhere.
C8_ScrapeSkips ==
    [][ (pipe.node = "scraper" /\ pipe.phase = "ready" /\ ScrapeArtifactsExist(fs)) =>
            /\ state'.progress_log = state.progress_log \o
                   <<"Starting scraping step...", "Scraped data already exists. Skipping scraping.">>
            /\ state'.scraped_data.filled
            /\ Len(state'.scraped_data.breakout) = FileRows(BreakoutCsv)
            /\ Len(state'.scraped_data.rastah) = FileRows(RastahCsv)
            /\ pipe'.phase = "returned"
            /\ pipe'.calls = Append(pipe.calls, Call("scraper", "skip"))
            /\ UNCHANGED <<crawler, obs, store, fs>>
      ]_vars

C8_Witness ==
    /\ pipe.phase = "returned"
    /\ pipe.calls # <<>>
    /\ LastCall = Call("scraper", "skip")
    /\ Len(state.scraped_data.breakout) = 1
    /\ Len(state.scraped_data.rastah) = 0
    /\ \A t \in Tasks : Navigated(t) = {}

\* C10: when a call of Scrape, Analyze or Report has done the stage's work
\* and returned without error, the artifacts its skip check tests exist, so
\* that the same stage called next takes the skip branch and sets the same
\* state field to the same content.
C10_StageIdempotent ==
    (pipe.phase = "returned" /\ pipe.calls # <<>> /\ ~ErrorSet) =>
        /\ LastCall = Call("scraper", "work") =>
              /\ ScrapeArtifactsExist(fs)
              /\ scraper_agent_begin(state, fs).branch = "skip"
              /\ scraper_agent_begin(state, fs).state.scraped_data = state.scraped_data
        /\ LastCall = Call("analyzer", "work") =>
              /\ FileExists(fs, AnalysisTxt)
              /\ \A reply \in LlmReplies :
                    /\ analysis_agent(state, fs, reply).branch = "skip"
                    /\ analysis_agent(state, fs, reply).state.analysis_results = state.analysis_results
        /\ LastCall = Call("report", "work") =>
              /\ FileExists(fs, ReportTxt)
              /\ \A reply \in LlmReplies :
                    /\ report_agent(state, fs, reply).branch = "skip"
                    /\ report_agent(state, fs, reply).state.report = state.report

\* The tasks of scrape_all_products have been created.
CoordLaunched == coord.pc \in {"gather", "done", "raised"}

\* C11: for every total N >= 1 scrape_all_products starts each of the two
\* crawlers with quota ceil(N/2), the least q with 2q >= N; 7 gives 4 and 4,
\* 50 gives 25 and 25.
C11_CeilingSplit ==
    /\ CeilHalf(7) = 4 /\ CeilHalf(50) = 25
    /\ (CoordLaunched /\ coord.total_products >= 1) =>
          \A t \in Tasks :
              /\ 2 * crawler[t].max_products >= coord.total_products
              /\ 2 * (crawler[t].max_products - 1) < coord.total_products
              /\ crawler[t].max_products = coord.per_source

C11_Witness ==
    /\ coord.pc = "gather"
    /\ coord.total_products = 3
    /\ \A t \in Tasks : crawler[t].pc # "idle" /\ crawler[t].max_products = 2

\* C12: when the Scrape stage does its work for target count N, each crawler
\* it starts gets the quota ceil(N/2) that scrape_all_products gives for N.
C12_StageSplitsAsCoordinator ==
    (pipe.node = "scraper" /\ pipe.phase = "running") =>
        \A t \in Tasks :
            crawler[t].pc # "idle" => crawler[t].max_products = CeilHalf(state.max_products)

\* The file data/<name> holds the header row and then exactly these records.
CsvHolds(name, data) ==
    /\ FileExists(fs, PathJoin(DataDir, name))
    /\ fs.files[PathJoin(DataDir, name)] = <<CsvHeader>> \o data

\* C13: when one crawler returns k records and the other none,
\* scrape_all_products returns normally with exactly those k records, all
\* labelled with the yielding source, and writes the three artifacts; an
\* empty source alone is no error.
C13_EmptySourceIsNoError ==
    /\ coord.pc = "raised" => \E t \in Tasks : crawler[t].pc = "raised"
    /\ \A t, u \in Tasks :
          (coord.pc = "done" /\ t # u /\ crawler[u].products_data = <<>>) =>
              /\ coord.final_data = crawler[t].products_data
              /\ coord.total_scraped = Len(crawler[t].products_data)
              /\ \A i \in 1..Len(coord.final_data) : coord.final_data[i][4] = SourceLabel(t)
              /\ CsvHolds(IF t = "breakout" THEN BreakoutFile ELSE RastahFile, crawler[t].products_data)
              /\ CsvHolds(IF u = "breakout" THEN BreakoutFile ELSE RastahFile, <<>>)
              /\ CsvHolds(AllFile, crawler[t].products_data)

C13_Witness ==
    /\ coord.pc = "done"
    /\ coord.per_source >= 1
    /\ coord.breakout_count = coord.per_source
    /\ coord.rastah_count = 0
    /\ obs["rastah"].listing_failed

\* The scraped data of the run has no record of one source and at least two
\* of the other, and nothing failed in the site, the store or generation.
OneSourceEmpty ==
    /\ state.scraped_data.filled
    /\ \/ Len(state.scraped_data.breakout) = 0 /\ Len(state.scraped_data.rastah) >= 2
       \/ Len(state.scraped_data.rastah) = 0 /\ Len(state.scraped_data.breakout) >= 2
    /\ env.faults = {}

\* C14: in a run where one source yields no record and the other at least
\* two, no stage sets error on account of the empty source: the run gets past
\* Analyze with error unset and the analysis in the state.
C14_EmptySourcePassesAnalyze ==
    (RunOver /\ OneSourceEmpty) =>
        /\ ~ErrorSet
        /\ "analyzer" \in Range(Invoked)
        /\ Truthy(Get(state, "analysis_results"))

\* The Analyze stage has just done its work (no skip) on two scraped files
\* that together hold exactly one record.
AnalyzedOneRecord ==
    /\ pipe.phase = "returned" /\ pipe.calls # <<>>
    /\ LastCall.node = "analyzer" /\ LastCall.branch # "skip"
    /\ ScrapeArtifactsExist(fs)
    /\ FileRows(BreakoutCsv) + FileRows(RastahCsv) = 1

\* C15: when the Analyze stage works on artifacts that together hold exactly
\* one record, it ends with error set to the fewer-than-two-records failure,
\* status "failed", no report and no analysis artifact.
C15_OneRecordIsNotEnough ==
    AnalyzedOneRecord =>
        /\ Get(state, "error") = "Analysis agent error: Failed to complete the analysis process. "
                                     \o "Error: Not enough product data"
        /\ state.status = "failed"
        /\ ~Truthy(Get(state, "report"))
        /\ ~FileExists(fs, AnalysisTxt)

\* A step of a stage call that is under way and ends in failure, or is the
\* first half of a Scrape call that goes on to crawl.
FailingStep ==
    /\ pipe.phase \in {"ready", "running"}
    /\ pipe'.calls # <<>>
    /\ pipe'.calls[Len(pipe'.calls)].branch \in {"fail", "running"}

\* C17: the state a failing stage returns differs from its input state only
\* in error, status, progress_status and appended log entries: question,
\* target count, headless, scraped_data, analysis_results, report and
\* messages are as they were, and no key is lost.
C17_FailureKeepsOtherFields ==
    [][ FailingStep =>
            /\ state'.question = state.question
            /\ state'.max_products = state.max_products
            /\ state'.headless = state.headless
            /\ state'.scraped_data = state.scraped_data
            /\ state'.analysis_results = state.analysis_results
            /\ state'.report = state.report
            /\ state'.messages = state.messages
            /\ state.keys \subseteq state'.keys
            /\ SliceTo(state'.progress_log, Len(state.progress_log)) = state.progress_log
      ]_vars

C17_Witness ==
    /\ pipe.phase = "returned"
    /\ Len(pipe.calls) = 2
    /\ LastCall.branch = "fail"
    /\ state.scraped_data.filled
    /\ Len(state.scraped_data.rastah) >= 1
    /\ Len(state.messages) >= 1

(***************************************************************************)
(* Properties of the stage functions on any state (SpecTask)               *)
(***************************************************************************)
\* C16: every stage function, on every input state and whatever fails in
\* it, returns a state and does not raise; when its work failed the state
\* has error set and status "failed".
C16_StagesNeverRaise ==
    /\ pipe.phase # "raised"
    /\ \A i \in 1..Len(pipe.calls) : pipe.calls[i].branch # "raise"
    /\ (pipe.calls # <<>> /\ LastCall.branch = "fail") => (ErrorSet /\ state.status = "failed")

(***************************************************************************)
(* Properties of the two crawler tasks under scrape_all_products           *)
(* (SpecCoord)                                                             *)
(***************************************************************************)
\* C18: for given outputs of the two crawlers the merged sequence is the
\* first source's records in order, then the second's, cut to N, in whatever
\* order the two tasks ran and ended.
C18_MergeOrderFixed ==
    coord.pc = "done" =>
        LET b == crawler["breakout"].products_data
            r == crawler["rastah"].products_data
        IN /\ Len(coord.final_data) = Min(coord.total_products, Len(b) + Len(r))
           /\ \A i \in 1..Len(coord.final_data) :
                 coord.final_data[i] = IF i <= Len(b) THEN b[i] ELSE r[i - Len(b)]

C18_Witness ==
    /\ coord.pc = "done"
    /\ coord.arrived = <<"rastah", "breakout">>
    /\ Len(coord.final_data) = 2
    /\ coord.final_data[1][4] = "Breakout"
    /\ coord.final_data[2][4] = "Rastah"

\* C36: for every N >= 1 and crawler outputs A (Breakout) and B (Rastah)
\* within their quotas, scrape_all_products reports total_scraped =
\* min(N, |A| + |B|), keeps every record of A in the combined list and drops
\* records only from the tail of B; the per-source counts and the per-source
\* artifacts are those of the untruncated A and B.
C36_TruncationFallsOnSecond ==
    (coord.pc = "done" /\ coord.total_products >= 1) =>
        LET A == crawler["breakout"].products_data
            B == crawler["rastah"].products_data
            kept == coord.total_scraped - Len(A)
        IN /\ Len(A) <= coord.per_source /\ Len(B) <= coord.per_source
           /\ coord.total_scraped = Min(coord.total_products, Len(A) + Len(B))
           /\ kept \in 0..Len(B)
           /\ coord.final_data = A \o SubSeq(B, 1, kept)
           /\ coord.breakout_count = Len(A) /\ coord.rastah_count = Len(B)
           /\ CsvHolds(BreakoutFile, A) /\ CsvHolds(RastahFile, B)
           /\ CsvHolds(AllFile, coord.final_data)

C36_Witness ==
    /\ coord.pc = "done"
    /\ coord.total_products = 3
    /\ coord.breakout_count = 2 /\ coord.rastah_count = 2
    /\ coord.total_scraped = 3
    /\ coord.final_data[3][4] = "Rastah"

\* C19: scrape_all_products merges, returns or raises only once both crawler
\* tasks have ended; one task's failure or empty result neither cancels the
\* other nor lets the coordinator finish while the other still runs.
C19_CoordinatorJoinsBoth ==
    coord.pc \in {"done", "raised"} => \A t \in Tasks : CrawlerFinished(t)

(***************************************************************************)
(* Properties of overlapping crawls of one source (SpecOverlap)            *)
(***************************************************************************)
\* C38: when two crawls of the same source overlap, the store persisted
\* after both have finished holds every URL that either crawl extracted
\* successfully: no update is lost.
C38_NoLostUpdate ==
    (\A t \in OverlapTasks : crawler[t].pc = "done") =>
        \A t \in OverlapTasks : Range(obs[t].emitted) \subseteq store["Breakout"]

(***************************************************************************)
(* Properties of the order of the stages in one run (Spec)                 *)
(***************************************************************************)
\* C27: within one run no stage function is invoked more than once: a stage
\* that failed is not entered again, and the conditional edges never lead
\* back to a stage that has run.
C27_NoStageTwice ==
    /\ \A i, j \in DOMAIN Invoked : Invoked[i] = Invoked[j] => i = j
    /\ (pipe.phase = "ready" /\ pipe.node \in Nodes) =>
           \A i \in DOMAIN Invoked : Invoked[i] # pipe.node

C27_Witness ==
    /\ pipe.phase = "done"
    /\ Len(pipe.calls) = 2
    /\ LastCall.branch = "fail"
    /\ Truthy(Get(state, "error"))

\* C35: after every stage of the graph, route_next's answer for the state
\* the stage produced is one of the transitions wired for that stage, so
\* that the run is never left without a next step.
C35_RouteAlwaysWired ==
    (pipe.phase = "returned" /\ pipe.node \in Nodes) =>
        route_next(state) \in DOMAIN Wiring(pipe.node)

\* C33: in a run at most one stage function executes at any time, and the
\* only tasks that run concurrently are the two crawlers inside the Scrape
\* stage: a crawler task is under way only while scraper_agent awaits it,
\* and each crawler holds only records and visited URLs of its own source.
C33_ConcurrencyOnlyInScrape ==
    /\ Cardinality({i \in DOMAIN pipe.calls : pipe.calls[i].branch = "running"}) <= 1
    /\ (\E t \in Tasks : ~CrawlerQuiet(t)) => (pipe.node = "scraper" /\ pipe.phase = "running")
    /\ \A t \in Tasks :
          /\ \A i \in DOMAIN crawler[t].products_data :
                crawler[t].products_data[i][4] = SourceLabel(t)
          /\ crawler[t].scraped_urls \subseteq Urls(t)

(***************************************************************************)
(* Properties of the Answer stage (SpecStage)                              *)
(***************************************************************************)
\* The Answer stage was the only stage called, and has returned.
AnsweredOnly == pipe.phase = "returned" /\ Invoked = <<"qa">>

\* C21: the Answer stage never skips: whatever artifacts exist, a call of
\* qa_agent makes one generation call for the question, so that it fails
\* with the generation or its answer is the generated text, and it writes
\* no file.
C21_AnswerAlwaysGenerates ==
    AnsweredOnly =>
        /\ LastCall.branch \in {"work", "fail"}
        /\ LastCall.branch = "work" =>
              /\ state.messages # <<>>
              /\ state.messages[Len(state.messages)].role = "assistant"
              /\ state.messages[Len(state.messages)].content[1] \in {r.text : r \in LlmReplies}
        /\ DOMAIN fs.files = env.initial_files

(***************************************************************************)
(* Properties of the generation call in the stages (SpecStage)             *)
(***************************************************************************)
\* The stage function called in this step gets as far as its generation call.
ReachesGeneration(node) ==
    /\ "progress_log" \in state.keys
    /\ CASE node = "analyzer" ->
               /\ ~FileExists(fs, AnalysisTxt)
               /\ LET loaded == load_csv_products(fs, <<BreakoutCsv, RastahCsv>>)
                  IN loaded.ok /\ Len(loaded.products) >= 2
         [] node = "qa" -> "question" \in state.keys /\ FileExists(fs, AnalysisTxt)
         [] node = "report" -> ~FileExists(fs, ReportTxt) /\ FileExists(fs, AnalysisTxt)
         [] OTHER -> FALSE

\* A step in which the stage function made its generation call and the call
\* errored.
GenerationFailedIn(node) ==
    /\ pipe.node = node /\ pipe.phase = "ready" /\ pipe'.phase # "ready"
    /\ ReachesGeneration(node)
    /\ "llm" \notin env.faults /\ "llm" \in env'.faults

\* The error texts that name a failed generation call.
GenerationErrors ==
    {"Analysis agent error: Failed to complete the analysis process. Error: Error during analysis with the AI model",
     "QA agent error: generation failed",
     "Report agent error: Error generating report"}

GenerationFailureHandled(node) ==
    GenerationFailedIn(node) =>
        /\ pipe'.phase = "returned"
        /\ Get(state', "error") \in GenerationErrors
        /\ Get(state', "status") = "failed"
        /\ fs' = fs

\* C28: in the Analyze, Answer and Report stages a generation call that
\* errors ends the stage with an error that describes the generation
\* failure and with status "failed", and the stage's artifact is not written.
C28_GenerationFailureFailsStage ==
    [][\A node \in {"analyzer", "qa", "report"} : GenerationFailureHandled(node)]_vars

(***************************************************************************)
(* Properties of the progress log (SpecStage)                              *)
(***************************************************************************)
IsPrefix(a, b) == Len(a) <= Len(b) /\ SubSeq(b, 1, Len(a)) = a

\* A step in which a stage function is entered.
StageBegins == pipe.phase = "ready" /\ pipe'.phase # "ready"

\* C29: the progress log is append-only over any sequence of stage
\* invocations: every step leaves the log it found as a prefix of the new
\* log, and every stage invocation appends at least one entry.
C29_LogAppendOnly ==
    [][/\ IsPrefix(state.progress_log, state'.progress_log)
       /\ StageBegins => Len(state'.progress_log) > Len(state.progress_log)]_vars

C29_Witness ==
    /\ pipe.phase = "returned"
    /\ Len(pipe.calls) = 2
    /\ pipe.calls[1].branch = "work"
    /\ pipe.calls[2].branch = "fail"
    /\ Len(state.progress_log) >= 4

\* Other contents the progress log could have.
OtherLogs == {<<>>, <<"Starting report generation step...", "Report agent error: OSError">>}

\* What a stage function does apart from the log: whether it raises, its
\* branch, the files it leaves and the fields it returns.
ApartFromLog(r) ==
    [raised |-> r.raised, branch |-> r.branch, fs |-> r.fs,
     state |-> [r.state EXCEPT !.progress_log = <<>>]]

\* The stage functions that can act where the run stands, applied to s and
\* the files as they are, for every outcome of the generation call: once
\* both crawlers have returned, the rest of scraper_agent; while they run,
\* none; otherwise every stage function from its start.
StageOutcomes(s) ==
    IF pipe.phase = "running"
    THEN IF \A t \in Tasks : crawler[t].pc = "done"
         THEN <<ApartFromLog(scraper_agent_finish(s, fs, crawler["breakout"].products_data,
                                                  crawler["rastah"].products_data))>>
         ELSE <<>>
    ELSE <<ApartFromLog(scraper_agent_begin(s, fs)),
           [reply \in LlmReplies |-> ApartFromLog(analysis_agent(s, fs, reply))],
           [reply \in LlmReplies |-> ApartFromLog(qa_agent(s, fs, reply))],
           [reply \in LlmReplies |-> ApartFromLog(report_agent(s, fs, reply))]>>

\* C30: the progress log never influences control flow: with any other
\* contents of the log, route_next gives the same answer, and every stage
\* function takes the same branch and produces the same other fields.
C30_LogNotConsulted ==
    \A log \in OtherLogs :
        LET other == [state EXCEPT !.progress_log = log] IN
        /\ route_next(other) = route_next(state)
        /\ StageOutcomes(other) = StageOutcomes(state)

C30_Witness ==
    /\ pipe.phase = "returned"
    /\ Len(pipe.calls) = 2
    /\ LastCall = Call("analyzer", "work")
    /\ state.progress_log \notin OtherLogs
    /\ route_next(state) = "report"

(***************************************************************************)
(* Properties of the files the stages write (SpecStage)                    *)
(***************************************************************************)
\* C32: a stage writes only its own artifact: a stage call that takes the
\* skip branch leaves every file as it was; Analyze, Answer and Report never
\* create, change or delete a per-source Scrape artifact; Answer and Report
\* never change the Analyze artifact.
C32_StagesWriteOwnArtifact ==
    [][LET Kept(path) ==
               /\ FileExists(fs', path) <=> FileExists(fs, path)
               /\ FileExists(fs, path) => fs'.files[path] = fs.files[path]
       IN StageBegins =>
            /\ (pipe'.phase = "returned" /\ pipe'.calls[Len(pipe'.calls)].branch = "skip")
                   => fs'.files = fs.files
            /\ pipe.node \in {"analyzer", "qa", "report"} => Kept(BreakoutCsv) /\ Kept(RastahCsv)
            /\ pipe.node \in {"qa", "report"} => Kept(AnalysisTxt)
            /\ pipe.node = "analyzer" => Kept(ReportTxt)
            /\ pipe.node = "qa" => fs'.files = fs.files]_vars

C32_Witness ==
    /\ pipe.phase = "returned"
    /\ pipe.calls = <<Call("analyzer", "work"), Call("report", "work")>>
    /\ FileExists(fs, BreakoutCsv) /\ FileExists(fs, RastahCsv)
    /\ FileExists(fs, AnalysisTxt) /\ FileExists(fs, ReportTxt)

C32_WitnessSkip ==
    /\ pipe.phase = "returned"
    /\ pipe.calls = <<Call("scraper", "skip"), Call("report", "skip")>>

(***************************************************************************)
(* Properties of the status field (SpecStage)                              *)
(***************************************************************************)
\* C39: status is always one of pending, running, failed, completed; a run
\* that ends without error, that is, whose last stage, Report, has returned
\* with error unset, has status "completed", and a stage that returned
\* with error set has left status "failed".
C39_StatusTellsOutcome ==
    /\ Get(state, "status") \in {"pending", "running", "failed", "completed"}
    /\ (pipe.phase = "returned" /\ pipe.calls # <<>>) =>
          /\ (LastCall.node = "report" /\ ~ErrorSet) => Get(state, "status") = "completed"
          /\ (LastCall.branch = "fail") => Get(state, "status") = "failed"

====
